---- MODULE Spec2Model ----
(***************************************************************************)
(* Model of backend/services/rag_service.py (class RAGService) and of the  *)
(* way backend/main.py drives it.                                          *)
(*                                                                         *)
(* Strings are sequences of characters (one-character TLA+ strings), so    *)
(* that lower(), split(), strip(), slicing and the "in" tests are computed *)
(* as Python computes them.  The long literal sentences of the response    *)
(* templates are carried as whole-word atoms and abbreviated to their      *)
(* first and last words; an atom is never whitespace, so split() treats it *)
(* as part of a word exactly as it treats the characters it stands for.    *)
(* Scores and confidences are kept in tenths (0.3 is 3, 1.0 is 10).        *)
(***************************************************************************)
EXTENDS Naturals, Integers, Sequences, FiniteSets, TLC

(***************************************************************************)
(* Bounds of the model.                                                    *)
(***************************************************************************)
\* largest number of words in a text returned by the external generation call
MaxAnsWords == 5

\* request slots that may be in flight at the same time
Reqs == {"r1", "r2"}

(***************************************************************************)
(* Python values.                                                          *)
(***************************************************************************)
\* Python's None where a string is expected (message.content of a reply)
NoneStr == <<"<None>">>

\* Python's None for the optional category argument
NoneCat == "<None>"

Whitespace == {" ", "\n", "\t"}

UpperLetters ==
    <<"A","B","C","D","E","F","G","H","I","J","K","L","M",
      "N","O","P","Q","R","S","T","U","V","W","X","Y","Z">>

LowerLetters ==
    <<"a","b","c","d","e","f","g","h","i","j","k","l","m",
      "n","o","p","q","r","s","t","u","v","w","x","y","z">>

LowerChar(c) ==
    IF \E i \in 1..26 : UpperLetters[i] = c
    THEN LowerLetters[CHOOSE i \in 1..26 : UpperLetters[i] = c]
    ELSE c

\* str.lower()
Lower(s) == [i \in 1..Len(s) |-> LowerChar(s[i])]

\* str.split(): maximal runs of non-whitespace characters, in order
RECURSIVE SplitFrom(_, _, _, _)
SplitFrom(s, i, cur, acc) ==
    IF i > Len(s)
    THEN IF cur = <<>> THEN acc ELSE Append(acc, cur)
    ELSE IF s[i] \in Whitespace
         THEN SplitFrom(s, i + 1, <<>>, IF cur = <<>> THEN acc ELSE Append(acc, cur))
         ELSE SplitFrom(s, i + 1, Append(cur, s[i]), acc)

Split(s) == SplitFrom(s, 1, <<>>, <<>>)

\* str.strip()
RECURSIVE LStrip(_)
LStrip(s) ==
    IF s # <<>> /\ Head(s) \in Whitespace THEN LStrip(Tail(s)) ELSE s

RECURSIVE RStrip(_)
RStrip(s) ==
    IF s # <<>> /\ s[Len(s)] \in Whitespace
    THEN RStrip(SubSeq(s, 1, Len(s) - 1))
    ELSE s

Strip(s) == LStrip(RStrip(s))

\* the slice s[:n]
Slice(s, n) == SubSeq(s, 1, IF Len(s) < n THEN Len(s) ELSE n)

\* "sub in s" for strings: sub occurs as a contiguous substring of s
IsSubstring(sub, s) ==
    \E k \in 0..(Len(s) - Len(sub)) : SubSeq(s, k + 1, k + Len(sub)) = sub

\* "x in list"
InList(x, list) == \E i \in 1..Len(list) : list[i] = x

\* sep.join(parts)
RECURSIVE Join(_, _)
Join(parts, sep) ==
    IF parts = <<>> THEN <<>>
    ELSE IF Len(parts) = 1 THEN parts[1]
    ELSE parts[1] \o sep \o Join(Tail(parts), sep)

\* dict.get(key, default) on a JSON object
Get(item, key, default) == IF key \in DOMAIN item THEN item[key] ELSE default

\* truthiness of the optional category ("if category and ...")
Truthy(category) == category # NoneCat /\ category # ""

Min(a, b) == IF a < b THEN a ELSE b

(***************************************************************************)
(* The corpus.  A record is a JSON object: a function from the keys it has *)
(* to their values, so that a key may be missing.                          *)
(***************************************************************************)
Q_cycle ==
    <<"N","o","r","m","a","l"," ","c","y","c","l","e"," ","l","e","n","g","t","h","?">>

A_cycle ==
    <<"C","y","c","l","e","s"," ","l","a","s","t"," ","2","8"," ","d","a","y","s",".">>

Q_preg ==
    <<"E","a","r","l","y"," ","s","i","g","n","s"," ","o","f"," ","p","r","e","g","n","a","n","c","y","?">>

A_preg ==
    <<"N","a","u","s","e","a"," ","a","n","d"," ","f","a","t","i","g","u","e",".">>

Q_pcos ==
    <<"W","h","a","t"," ","i","s"," ","P","C","O","S","?">>

A_pcos ==
    <<"P","C","O","S"," ","i","s"," ","a"," ","h","o","r","m","o","n","a","l"," ","d","i","s","o","r","d","e","r",".">>

T_periods == <<"p","e","r","i","o","d","s">>

T_cycle == <<"c","y","c","l","e">>

T_normal == <<"n","o","r","m","a","l">>

T_pregnancy == <<"p","r","e","g","n","a","n","c","y">>

T_early_signs == <<"e","a","r","l","y"," ","s","i","g","n","s">>

T_PCOS == <<"P","C","O","S">>

T_hormonal == <<"h","o","r","m","o","n","a","l">>

\* the built-in records of _create_sample_dataset, three of the eight, with
\* the question and answer sentences shortened
SampleDataset ==
    << [question |-> Q_cycle, answer |-> A_cycle, category |-> "menstruation",
        tags |-> <<T_periods, T_cycle, T_normal>>, source |-> "gynecological_guidelines"],
       [question |-> Q_preg, answer |-> A_preg, category |-> "pregnancy",
        tags |-> <<T_pregnancy, T_early_signs>>, source |-> "obstetric_care_guidelines"],
       [question |-> Q_pcos, answer |-> A_pcos, category |-> "pcos",
        tags |-> <<T_PCOS, T_hormonal>>, source |-> "endocrinology_textbook"] >>

Q_care == <<"p","c","o","s"," ","c","a","r","e">>

Q_tips == <<"p","c","o","s"," ","c","a","r","e"," ","t","i","p","s">>

A_rest == <<"r","e","s","t"," ","w","e","l","l">>

T_care == <<"c","a","r","e">>

\* a dataset file whose records share words: for the question "pcos care"
\* the records accumulate 1.5, 0.6 and 1.8
RankingDataset ==
    << [question |-> T_PCOS, answer |-> Q_care, category |-> "pcos",
        tags |-> <<T_PCOS, T_care>>],
       [question |-> Q_care, answer |-> A_rest, category |-> "pcos",
        tags |-> <<>>],
       [question |-> Q_tips, answer |-> Q_care, category |-> "pcos",
        tags |-> <<T_PCOS, T_care>>] >>

\* contents a dataset file may have: json.load accepts any JSON array, with
\* no check that a record has every key
FileDatasets ==
    { <<>>,
      << [question |-> Q_care, category |-> "pcos", tags |-> <<T_PCOS>>] >>,
      << [answer |-> A_pcos, category |-> "pcos", tags |-> <<T_hormonal>>] >>,
      RankingDataset }

(***************************************************************************)
(* Request inputs.                                                         *)
(***************************************************************************)
AskPcos == <<"W","h","a","t"," ","i","s"," "," ","P","C","O","S">>

AskHi == <<"h","i">>

AskCycle == <<"c","y","c","l","e">>

AskCare == <<"P","c","o","s"," ","C","a","r","e">>

Questions == {AskPcos, AskHi, AskCycle, AskCare}

Modes == {"doctor", "bestie", "sister"}

Categories == {NoneCat, "pcos", "fertility"}

(***************************************************************************)
(* Result of a call that may raise: raised, or a value.                    *)
(***************************************************************************)
NoEnvelope == [answer |-> <<>>, sources |-> <<>>, confidence |-> 0]

Raised == [raised |-> TRUE, value |-> NoEnvelope]

Returned(v) == [raised |-> FALSE, value |-> v]

(***************************************************************************)
(* _get_knowledge_based_response                                           *)
(***************************************************************************)
\* the per-word weights of one question word against one record
WordScore(word, item_question_words, item_answer_words, item_tags) ==
    IF Len(word) > 2
    THEN (IF InList(word, item_question_words) THEN 3 ELSE 0)
       + (IF InList(word, item_answer_words) THEN 2 ELSE 0)
       + (IF InList(word, item_tags) THEN 4 ELSE 0)
    ELSE 0

RECURSIVE SumWordScores(_, _, _, _)
SumWordScores(question_words, item_question_words, item_answer_words, item_tags) ==
    IF question_words = <<>> THEN 0
    ELSE WordScore(Head(question_words), item_question_words, item_answer_words, item_tags)
       + SumWordScores(Tail(question_words), item_question_words, item_answer_words, item_tags)

LowerTags(item) ==
    LET tags == Get(item, "tags", <<>>)
    IN  [i \in 1..Len(tags) |-> Lower(tags[i])]

ItemScoreAssigned(item, question, category) ==
    LET words == Split(Lower(question))
    IN  (IF Truthy(category) /\ Get(item, "category", NoneCat) = category THEN 5 ELSE 0)
      + (IF words = <<>> THEN 0
         ELSE WordScore(words[Len(words)],
                        Split(Lower(Get(item, "question", <<>>))),
                        Split(Lower(Get(item, "answer", <<>>))),
                        LowerTags(item)))

\* the score one record accumulates in the loop body
ItemScore(item, question, category) ==
    (IF Truthy(category) /\ Get(item, "category", NoneCat) = category THEN 5 ELSE 0)
  + SumWordScores(Split(Lower(question)),
                  Split(Lower(Get(item, "question", <<>>))),
                  Split(Lower(Get(item, "answer", <<>>))),
                  LowerTags(item))

Unclamped(score) == score

\* min(score, 1.0)
Clamp(score) == Min(score, 10)

RelevantDataKeepsZero(medical_data, question, category) ==
    [i \in 1..Len(medical_data) |->
        [content |-> medical_data[i],
         score |-> Clamp(ItemScore(medical_data[i], question, category))]]

\* relevant_data after the loop: the records with score > 0, in corpus order
RECURSIVE RelevantData(_, _, _)
RelevantData(medical_data, question, category) ==
    IF medical_data = <<>> THEN <<>>
    ELSE LET item == Head(medical_data)
             score == ItemScore(item, question, category)
             rest == RelevantData(Tail(medical_data), question, category)
         IN  IF score > 0
             THEN <<[content |-> item, score |-> Clamp(score)]>> \o rest
             ELSE rest

\* list.sort(key=score, reverse=True): stable, descending
RECURSIVE InsertDesc(_, _)
InsertDesc(sorted, x) ==
    IF sorted = <<>> THEN <<x>>
    ELSE IF Head(sorted).score >= x.score
         THEN <<Head(sorted)>> \o InsertDesc(Tail(sorted), x)
         ELSE <<x>> \o sorted

RECURSIVE SortDesc(_)
SortDesc(data) ==
    IF data = <<>> THEN <<>>
    ELSE InsertDesc(SortDesc(SubSeq(data, 1, Len(data) - 1)), data[Len(data)])

\* _customize_response
CustomizeResponse(base_answer, personality_mode, question) ==
    IF personality_mode = "bestie"
    THEN <<"Hey", " ", "girl!", " ">> \o base_answer
         \o <<" ", "You've", " ", "got", " ", "this!">>
    ELSE IF personality_mode = "sister"
    THEN <<"I'm", " ", "so", " ", "glad", " ">> \o base_answer
         \o <<" ", "Take", " ", "care!">>
    ELSE <<"Regarding", " ", "your", " ", "question", " ", "about", " ">>
         \o Lower(question) \o <<":", " ">> \o base_answer
         \o <<" ", "medical", " ", "advice.">>

GeneralResponseConfident(question, personality_mode) ==
    [answer |-> <<"Thank", " ", "you">>, sources |-> <<>>, confidence |-> 8]

\* _get_general_response
GeneralResponse(question, personality_mode) ==
    [answer |->
        IF personality_mode = "bestie"
        THEN <<"That's", " ", "a", " ", "great", " ", "question", " ", "about", " ", "'">>
             \o question \o <<"'!", " ", "You're", " ", "smart", " ", "for", " ", "asking!">>
        ELSE IF personality_mode = "sister"
        THEN <<"I", " ", "appreciate", " ", "you", " ", "asking", " ", "about", " ", "'">>
             \o question \o <<"'", " ", "advocate", " ", "for", " ", "your", " ", "health!">>
        ELSE <<"Thank", " ", "you", " ", "for", " ", "your", " ", "question", " ", "about", " ", "'">>
             \o question \o <<"'.", " ", "medical", " ", "advice.">>,
     sources |-> <<>>,
     confidence |-> 5]

\* _get_error_response
ErrorResponse(personality_mode) ==
    [answer |->
        IF personality_mode = "bestie"
        THEN <<"Oops!", " ", "Can", " ", "you", " ", "try", " ", "asking", " ", "again?">>
        ELSE IF personality_mode = "sister"
        THEN <<"Sorry,", " ", "Please", " ", "try", " ", "again!">>
        ELSE <<"I", " ", "apologize,", " ", "healthcare", " ", "provider.">>,
     sources |-> <<>>,
     confidence |-> 3]

\* the whole of _get_knowledge_based_response; raises KeyError when the best
\* match has no "answer" or no "question" key
KnowledgeBasedResponse(medical_data, question, personality_mode, category) ==
    LET relevant_data == SortDesc(RelevantData(medical_data, question, category))
    IN  IF relevant_data # <<>>
        THEN LET best_match == relevant_data[1].content
             IN  IF "answer" \notin DOMAIN best_match \/ "question" \notin DOMAIN best_match
                 THEN Raised
                 ELSE Returned(
                        [answer |-> CustomizeResponse(best_match["answer"],
                                                      personality_mode, question),
                         sources |-> << [content |-> Slice(best_match["question"], 100)
                                                     \o <<".", ".", ".">>,
                                         score |-> relevant_data[1].score,
                                         metadata |-> [category |-> Get(best_match, "category", "general"),
                                                       source |-> "medical_dataset"]] >>,
                         confidence |-> relevant_data[1].score])
        ELSE Returned(GeneralResponse(question, personality_mode))

(***************************************************************************)
(* _find_relevant_context                                                  *)
(***************************************************************************)
ContextWordScore(word, item_text, item_tags) ==
    IF Len(word) > 2
    THEN (IF IsSubstring(word, item_text) THEN 3 ELSE 0)
       + (IF InList(word, item_tags) THEN 4 ELSE 0)
    ELSE 0

RECURSIVE SumContextScores(_, _, _)
SumContextScores(question_words, item_text, item_tags) ==
    IF question_words = <<>> THEN 0
    ELSE ContextWordScore(Head(question_words), item_text, item_tags)
       + SumContextScores(Tail(question_words), item_text, item_tags)

ContextItemScore(item, question, category) ==
    (IF Truthy(category) /\ Get(item, "category", NoneCat) = category THEN 5 ELSE 0)
  + SumContextScores(Split(Lower(question)),
                     Lower(Get(item, "question", <<>>) \o <<" ">> \o Get(item, "answer", <<>>)),
                     LowerTags(item))

RECURSIVE ContextData(_, _, _)
ContextData(medical_data, question, category) ==
    IF medical_data = <<>> THEN <<>>
    ELSE LET item == Head(medical_data)
             score == ContextItemScore(item, question, category)
             rest == ContextData(Tail(medical_data), question, category)
         IN  IF score > 0
             THEN <<[content |-> item, score |-> score]>> \o rest
             ELSE rest

\* the context string; raises KeyError when one of the top three records
\* has no "question" or no "answer" key
FindRelevantContext(medical_data, question, category) ==
    LET sorted == SortDesc(ContextData(medical_data, question, category))
        top == SubSeq(sorted, 1, Min(3, Len(sorted)))
    IN  IF \E i \in 1..Len(top) :
              "question" \notin DOMAIN top[i].content \/ "answer" \notin DOMAIN top[i].content
        THEN [raised |-> TRUE, value |-> <<>>]
        ELSE [raised |-> FALSE,
              value |-> Join([i \in 1..Len(top) |->
                                <<"Q", ":", " ">> \o top[i].content["question"]
                                \o <<"\n", "A", ":", " ">> \o top[i].content["answer"]],
                             <<"\n", "\n">>)]

(***************************************************************************)
(* The external generation capability (client.chat.completions.create).    *)
(* A call either fails (timeout, API error, a reply without choices) or    *)
(* returns a reply whose message.content is a text or None.                *)
(***************************************************************************)
\* a text of n distinct words
WordsText(n) ==
    Join([i \in 1..n |-> <<"w", ToString(i)>>], <<" ">>)

GeneratedTexts ==
    { WordsText(n) : n \in 0..MaxAnsWords }
    \cup { <<" ">> \o WordsText(2) \o <<" ", "\n">> \o WordsText(1) }

CallOutcomes ==
    { [ok |-> FALSE, content |-> NoneStr] }
    \cup { [ok |-> TRUE, content |-> t] : t \in GeneratedTexts \cup {NoneStr} }

\* _get_ai_response after a successful call: lines 281-294
AiEnvelope(content, context) ==
    [answer |-> content,
     sources |-> IF context # <<>>
                 THEN << [content |-> <<"Medical", " ", "knowledge", " ", "base">>,
                          score |-> 9,
                          metadata |-> [source |-> "ai_enhanced", model |-> "gpt-4o-mini"]] >>
                 ELSE <<>>,
     confidence |-> 9]

(***************************************************************************)
(* simplify_response and explain_medical_term: the dictionary fallbacks    *)
(***************************************************************************)
\* str.replace(old, new): every non-overlapping occurrence, left to right
RECURSIVE Replace(_, _, _)
Replace(s, old, new) ==
    IF old = <<>> \/ Len(s) < Len(old) THEN s
    ELSE IF SubSeq(s, 1, Len(old)) = old
         THEN new \o Replace(SubSeq(s, Len(old) + 1, Len(s)), old, new)
         ELSE <<Head(s)>> \o Replace(Tail(s), old, new)

\* the replacements dict, in insertion order
Replacements ==
    << << <<"s","y","n","d","r","o","m","e">>,
          <<"c","o","n","d","i","t","i","o","n">> >>,
       << <<"h","o","r","m","o","n","a","l"," ","d","i","s","o","r","d","e","r">>,
          <<"h","o","r","m","o","n","e"," ","p","r","o","b","l","e","m">> >>,
       << <<"r","e","p","r","o","d","u","c","t","i","v","e"," ","a","g","e">>,
          <<"w","h","e","n"," ","y","o","u"," ","c","a","n"," ","h","a","v","e"," ","b","a","b","i","e","s">> >>,
       << <<"m","e","n","s","t","r","u","a","l"," ","c","y","c","l","e">>,
          <<"p","e","r","i","o","d"," ","c","y","c","l","e">> >>,
       << <<"g","y","n","e","c","o","l","o","g","i","c","a","l">>,
          <<"w","o","m","e","n","'","s"," ","h","e","a","l","t","h">> >>,
       << <<"c","o","n","t","r","a","c","e","p","t","i","v","e","s">>,
          <<"b","i","r","t","h"," ","c","o","n","t","r","o","l">> >> >>

RECURSIVE ApplyReplacements(_, _)
ApplyReplacements(simplified, replacements) ==
    IF replacements = <<>> THEN simplified
    ELSE ApplyReplacements(Replace(simplified, Head(replacements)[1], Head(replacements)[2]),
                           Tail(replacements))

SimplifyPreamble ==
    <<"Here's", " ", "a", " ", "simpler", " ", "way", " ", "to", " ",
      "understand", " ", "it:", " ">>

SimplifyFallbackNoPreamble(text) == ApplyReplacements(text, Replacements)

\* simplify_response, lines 460-474
SimplifyFallback(text) == SimplifyPreamble \o ApplyReplacements(text, Replacements)

\* the explanations dict: its keys, and the explanation of each (abbreviated)
ExplanationKeys ==
    << <<"p","c","o","s">>,
       <<"o","v","u","l","a","t","i","o","n">>,
       <<"m","e","n","s","t","r","u","a","t","i","o","n">>,
       <<"h","o","r","m","o","n","e","s">> >>

Explanations ==
    << <<"PCOS", " ", "stands", " ", "for", " ", "Polycystic", " ", "Ovary", " ", "Syndrome.">>,
       <<"Ovulation", " ", "is", " ", "when", " ", "your", " ", "ovary", " ", "releases", " ", "an", " ", "egg.">>,
       <<"Menstruation", " ", "is", " ", "your", " ", "monthly", " ", "period.">>,
       <<"Hormones", " ", "are", " ", "chemical", " ", "messengers.">> >>

ExplainFallbackNoStrip(term) ==
    LET term_lower == Lower(term)
    IN  IF InList(term_lower, ExplanationKeys)
        THEN Explanations[CHOOSE i \in 1..Len(ExplanationKeys) : ExplanationKeys[i] = term_lower]
        ELSE <<"'">> \o term \o <<"'", " ", "is", " ", "a", " ", "medical", " ", "term.">>

\* explain_medical_term, lines 499-511
ExplainFallback(term) ==
    LET term_lower == Strip(Lower(term))
    IN  IF InList(term_lower, ExplanationKeys)
        THEN Explanations[CHOOSE i \in 1..Len(ExplanationKeys) : ExplanationKeys[i] = term_lower]
        ELSE <<"'">> \o term \o <<"'", " ", "is", " ", "a", " ", "medical", " ", "term.">>

Texts ==
    { <<"a"," ","s","y","n","d","r","o","m","e">>,
      <<"r","e","s","t"," ","w","e","l","l">> }

Terms ==
    { <<" ","P","C","O","S">>,
      <<"c","y","s","t">> }

(***************************************************************************)
(* get_streaming_response: the word loop                                   *)
(***************************************************************************)
ApologyChunkIncomplete ==
    [chunk |-> <<"Sorry,", " ", "I", " ", "encountered", " ", "an", " ", "error",
                 " ", "processing", " ", "your", " ", "request.">>,
     is_complete |-> FALSE,
     sources |-> <<>>]

\* the dict yielded by the except block of get_streaming_response
ApologyChunk ==
    [chunk |-> <<"Sorry,", " ", "I", " ", "encountered", " ", "an", " ", "error",
                 " ", "processing", " ", "your", " ", "request.">>,
     is_complete |-> TRUE,
     sources |-> <<>>]

NoChunk == [chunk |-> <<>>, is_complete |-> FALSE, sources |-> <<>>]

FlushEveryFourthOnly(i, n) == i % 4 = 3

\* "if i % 4 == 3 or i == len(words) - 1"
Flush(i, n) == i % 4 = 3 \/ i = n - 1

StreamChunkAlwaysSources(current_chunk, i, n, sources) ==
    [chunk |-> current_chunk, is_complete |-> i = n - 1, sources |-> sources]

\* the dict yielded at index i
StreamChunk(current_chunk, i, n, sources) ==
    [chunk |-> current_chunk,
     is_complete |-> i = n - 1,
     sources |-> IF i = n - 1 THEN sources ELSE <<>>]

\* runs the loop from index i (0-based) with the buffer current_chunk up to
\* the next yield; ended is TRUE when the loop finishes without yielding
RECURSIVE RunToYield(_, _, _, _)
RunToYield(words, i, current_chunk, sources) ==
    IF i >= Len(words)
    THEN [ended |-> TRUE, i |-> i, chunk |-> NoChunk]
    ELSE LET buf == current_chunk \o words[i + 1] \o <<" ">>
         IN  IF Flush(i, Len(words))
             THEN [ended |-> FALSE, i |-> i + 1,
                   chunk |-> StreamChunk(buf, i, Len(words), sources)]
             ELSE RunToYield(words, i + 1, buf, sources)

(***************************************************************************)
(* State.                                                                  *)
(***************************************************************************)
VARIABLES
    medical_data,   \* self.medical_data
    disk,           \* the four candidate dataset files, in the order they are tried
    initialized,    \* self.initialized
    probe,          \* history: how the test call of initialize ended, if made
    client,         \* self.client is not None
    use_ai,         \* self.use_ai
    api_key,        \* the environment variable OPENAI_API_KEY
    req,            \* the requests in flight, one record per slot
    call_failed,    \* history: a request-time call to the capability has failed
    called_after_failure \* history: a request issued a call after such a failure

vars == <<medical_data, disk, initialized, probe, client, use_ai, api_key, req,
          call_failed, called_after_failure>>

\* os.getenv returns None when the variable is not set
NoKey == "<None>"

ApiKeys == {NoKey, " ", "sk-key"}

KeyUsableUnstripped(key) == key # NoKey /\ key # ""

\* "if api_key and api_key.strip()"
KeyUsable(key) == key # NoKey /\ key # "" /\ key # " "

\* a dataset file: none of the candidates exists, the first existing one is
\* not valid JSON, or it holds an array of records
FileStates ==
    { [exists |-> FALSE, parses |-> FALSE, content |-> <<>>],
      [exists |-> TRUE, parses |-> FALSE, content |-> <<>>] }
    \cup { [exists |-> TRUE, parses |-> TRUE, content |-> d] : d \in FileDatasets }

\* no HTTP response yet; status is the status code, message the text of the
\* body (message, simplified_text, explanation or ai_service)
NoHttp == [status |-> 0, term |-> <<>>, message |-> <<>>, sources |-> <<>>, confidence |-> 0]

Absent == [exists |-> FALSE, parses |-> FALSE, content |-> <<>>]

Malformed == [exists |-> TRUE, parses |-> FALSE, content |-> <<>>]

Holding(dataset) == [exists |-> TRUE, parses |-> TRUE, content |-> dataset]

\* what the four paths of data_paths may hold when the service starts
Disks ==
    { <<file, Absent, Absent, Absent>> : file \in FileStates }
    \cup { <<Malformed, Holding(RankingDataset), Absent, Absent>>,
           <<Absent, Malformed, Holding(RankingDataset), Absent>>,
           <<Absent, Absent, Holding(RankingDataset), Holding(<<>>)>> }

IdleReq ==
    [op |-> "idle", pc |-> "idle", question |-> <<>>, mode |-> "doctor",
     category |-> NoneCat, context |-> <<>>, response |-> Returned(NoEnvelope),
     text |-> <<>>, words |-> <<>>, i |-> 0, chunks |-> <<>>,
     calls |-> 0, call_failed |-> FALSE, failed |-> FALSE, stream_failed |-> FALSE,
     from_ai |-> FALSE, http |-> NoHttp]

Init ==
    /\ medical_data = <<>>
    /\ disk \in Disks
    /\ initialized = FALSE
    /\ probe = "not_called"
    /\ client = FALSE
    /\ use_ai = FALSE
    /\ api_key \in ApiKeys
    /\ req = [r \in Reqs |-> IdleReq]
    /\ call_failed = FALSE
    /\ called_after_failure = FALSE

(***************************************************************************)
(* initialize, with _load_medical_data and _create_sample_dataset          *)
(***************************************************************************)
LoadMedicalDataNoRecovery(file) ==
    IF file.exists THEN file.content ELSE SampleDataset

\* _load_medical_data: the parsed file, or the sample dataset when no file
\* exists or json.load raises
LoadMedicalData(file) ==
    IF file.exists /\ file.parses THEN file.content ELSE SampleDataset

\* the loop over data_paths: the first path that exists, whatever it holds
RECURSIVE FirstExisting(_)
FirstExisting(data_paths) ==
    IF data_paths = <<>> THEN Absent
    ELSE IF Head(data_paths).exists THEN Head(data_paths)
    ELSE FirstExisting(Tail(data_paths))

\* how the write of _create_sample_dataset may end: the file is written, it
\* cannot be opened, or it is opened (and truncated) and the dump fails
WriteOutcomes == {"written", "not_opened", "truncated"}

\* ./data/medical_qa_dataset.json, the first of data_paths, after the write
CreateSampleFile(files, outcome) ==
    IF outcome = "written" THEN [files EXCEPT ![1] = Holding(SampleDataset)]
    ELSE IF outcome = "truncated" THEN [files EXCEPT ![1] = Malformed]
    ELSE files

Initialize ==
    /\ ~initialized
    /\ \E openai_available \in BOOLEAN, probe_ok \in BOOLEAN, outcome \in WriteOutcomes :
         /\ medical_data' = LoadMedicalData(FirstExisting(disk))
         /\ disk' = IF FirstExisting(disk).exists /\ FirstExisting(disk).parses
                    THEN disk
                    ELSE CreateSampleFile(disk, outcome)
         /\ client' = (openai_available /\ KeyUsable(api_key))
         /\ use_ai' = (openai_available /\ KeyUsable(api_key) /\ probe_ok)
         /\ probe' = IF openai_available /\ KeyUsable(api_key)
                     THEN (IF probe_ok THEN "succeeded" ELSE "failed")
                     ELSE "not_called"
    /\ initialized' = TRUE
    /\ UNCHANGED <<api_key, req, call_failed, called_after_failure>>

(***************************************************************************)
(* The endpoints of main.py.                                               *)
(***************************************************************************)
\* health_check: "enabled" if os.getenv("OPENAI_API_KEY") else "disabled"
HealthCheck(key) ==
    [NoHttp EXCEPT !.status = 200,
                   !.message = IF key # NoKey /\ key # "" THEN <<"enabled">> ELSE <<"disabled">>]

\* whether ChatResponse(message=..., sources=..., confidence=...) validates:
\* message is a str, every source has content and score, 0 <= confidence <= 1
ChatResponseValid(v) ==
    /\ v.answer # NoneStr
    /\ \A i \in 1..Len(v.sources) : {"content", "score"} \subseteq DOMAIN v.sources[i]
    /\ v.confidence \in 0..10

\* the ChatResponse built by the except block of chat
FriendlyFallback ==
    [NoHttp EXCEPT !.status = 200,
                   !.message = <<"I'm", " ", "having", " ", "some", " ", "trouble", " ",
                                 "right", " ", "now,", " ", "try", " ", "asking", " ",
                                 "your", " ", "question", " ", "again?">>,
                   !.confidence = 5]

ChatNoCatch(resp) ==
    IF ~resp.raised /\ ChatResponseValid(resp.value)
    THEN [NoHttp EXCEPT !.status = 200, !.message = resp.value.answer,
                        !.sources = resp.value.sources,
                        !.confidence = resp.value.confidence]
    ELSE [NoHttp EXCEPT !.status = 500]

\* chat: the ChatResponse of the result of get_response, or the friendly
\* fallback when get_response or the construction of ChatResponse raises
Chat(resp) ==
    IF ~resp.raised /\ ChatResponseValid(resp.value)
    THEN [NoHttp EXCEPT !.status = 200, !.message = resp.value.answer,
                        !.sources = resp.value.sources,
                        !.confidence = resp.value.confidence]
    ELSE FriendlyFallback

\* the bodies POST /explain-term may carry: a dict with or without "term"
ExplainRequests ==
    { [has_term |-> FALSE, term |-> <<>>] }
    \cup { [has_term |-> TRUE, term |-> t] : t \in Terms \cup {<<>>} }

\* request.get("term", "")
RequestTerm(request) == IF request.has_term THEN request.term ELSE <<>>

\* the except block of the endpoint explain_medical_term: it also catches
\* the HTTPException(400) that the try block raises for an empty term
ExplainCaught(term) ==
    [NoHttp EXCEPT !.status = 200, !.term = term,
                   !.message = <<"This", " ", "is", " ", "a", " ", "medical", " ", "term.", " ",
                                 "I'd", " ", "recommend", " ", "asking", " ", "your", " ",
                                 "healthcare", " ", "provider">>]

\* the bodies of simplify_response and explain_medical_term of main.py when
\* the service has returned text
TextEndpoint(op, term, text) ==
    IF op = "simplify"
    THEN [NoHttp EXCEPT !.status = 200, !.message = text]
    ELSE [NoHttp EXCEPT !.status = 200, !.term = term, !.message = text]

(***************************************************************************)
(* Pieces of the request handlers.                                         *)
(***************************************************************************)
AiEnabledClientOnly(flag, has_client) == has_client

\* "if self.use_ai and self.client"
AiEnabled(flag, has_client) == flag /\ has_client

GetResponseNoCatch(k, personality_mode) == k

\* the try/except of get_response around the path taken
GetResponseCatch(k, personality_mode) ==
    IF k.raised THEN Returned(ErrorResponse(personality_mode)) ELSE k

FallbackGeneral(data, question, personality_mode, category) ==
    Returned(GeneralResponse(question, personality_mode))

\* the except block of _get_ai_response: the knowledge path, same arguments
FallbackResponse(data, question, personality_mode, category) ==
    KnowledgeBasedResponse(data, question, personality_mode, category)

FlagClearedAfterFailure(flag) == FALSE

\* self.use_ai after a failed request-time call: no handler assigns it
FlagAfterCallFailure(flag) == flag

RetriesOnce(calls) == calls < 2

\* whether a handler issues the call again after it failed: none does
RetriesAfterFailure(calls) == FALSE

\* get_streaming_response from the await of get_response to its first yield,
\* or to its end when the answer has no word
StreamBegin(rq, resp) ==
    IF resp.raised \/ resp.value.answer = NoneStr
    THEN [rq EXCEPT !.response = resp, !.pc = "yielded", !.stream_failed = TRUE,
                    !.chunks = <<ApologyChunk>>]
    ELSE LET words == Split(resp.value.answer)
             step == RunToYield(words, 0, <<>>, resp.value.sources)
         IN  IF step.ended
             THEN [rq EXCEPT !.response = resp, !.words = words, !.pc = "done"]
             ELSE [rq EXCEPT !.response = resp, !.words = words, !.pc = "yielded",
                             !.i = step.i, !.chunks = <<step.chunk>>]

\* what the request does once get_response has its result
Completed(rq, resp) ==
    IF rq.op = "stream"
    THEN StreamBegin(rq, resp)
    ELSE [rq EXCEPT !.response = resp, !.pc = "done", !.http = Chat(resp)]

\* get_response through the knowledge path (no call, or after a failed one)
KnowledgePath(rq, k) ==
    Completed([rq EXCEPT !.failed = k.raised], GetResponseCatch(k, rq.mode))

(***************************************************************************)
(* get_response and get_streaming_response                                 *)
(***************************************************************************)
StartGetResponse(r, questions, modes) ==
    /\ initialized
    /\ req[r].pc = "idle"
    /\ \E op \in {"get_response", "stream"}, question \in questions,
          personality_mode \in modes, category \in Categories :
         LET rq == [IdleReq EXCEPT !.op = op, !.question = question,
                                   !.mode = personality_mode, !.category = category]
             ctx == FindRelevantContext(medical_data, question, category)
         IN  IF AiEnabled(use_ai, client)
             THEN IF ctx.raised
                  THEN /\ req' = [req EXCEPT ![r] =
                              KnowledgePath(rq, FallbackResponse(medical_data, question,
                                                                 personality_mode, category))]
                       /\ UNCHANGED called_after_failure
                  ELSE /\ req' = [req EXCEPT ![r] =
                              [rq EXCEPT !.pc = "call", !.context = ctx.value, !.calls = 1]]
                       /\ called_after_failure' = (called_after_failure \/ call_failed)
             ELSE /\ req' = [req EXCEPT ![r] =
                         KnowledgePath(rq, KnowledgeBasedResponse(medical_data, question,
                                                                  personality_mode, category))]
                  /\ UNCHANGED called_after_failure
    /\ UNCHANGED <<medical_data, disk, initialized, probe, client, use_ai, api_key, call_failed>>

\* the awaited call of _get_ai_response completes
GetResponseCallReturns(r) ==
    /\ req[r].pc = "call"
    /\ req[r].op \in {"get_response", "stream"}
    /\ \E outcome \in CallOutcomes :
         LET rq == req[r]
         IN  IF outcome.ok
             THEN /\ req' = [req EXCEPT ![r] =
                         Completed([rq EXCEPT !.from_ai = TRUE],
                                   GetResponseCatch(Returned(AiEnvelope(outcome.content, rq.context)),
                                                    rq.mode))]
                  /\ UNCHANGED <<use_ai, call_failed, called_after_failure>>
             ELSE /\ use_ai' = FlagAfterCallFailure(use_ai)
                  /\ call_failed' = TRUE
                  /\ IF RetriesAfterFailure(rq.calls)
                     THEN /\ req' = [req EXCEPT ![r] = [rq EXCEPT !.calls = rq.calls + 1,
                                                                  !.call_failed = TRUE]]
                          /\ called_after_failure' = TRUE
                     ELSE /\ req' = [req EXCEPT ![r] =
                                 KnowledgePath([rq EXCEPT !.call_failed = TRUE],
                                               FallbackResponse(medical_data, rq.question,
                                                                rq.mode, rq.category))]
                          /\ UNCHANGED called_after_failure
    /\ UNCHANGED <<medical_data, disk, initialized, probe, client, api_key>>

\* the consumer asks the generator for its next chunk
StreamResume(r) ==
    /\ req[r].pc = "yielded"
    /\ LET rq == req[r]
           step == RunToYield(rq.words, rq.i, <<>>, rq.response.value.sources)
       IN  req' = [req EXCEPT ![r] =
                     IF rq.stream_failed \/ step.ended
                     THEN [rq EXCEPT !.pc = "done"]
                     ELSE [rq EXCEPT !.i = step.i, !.chunks = Append(rq.chunks, step.chunk)]]
    /\ UNCHANGED <<medical_data, disk, initialized, probe, client, use_ai, api_key,
                   call_failed, called_after_failure>>

(***************************************************************************)
(* simplify_response and explain_medical_term                              *)
(***************************************************************************)
TextFallback(op, text) ==
    IF op = "simplify" THEN SimplifyFallback(text) ELSE ExplainFallback(text)

StartText(r) ==
    /\ initialized
    /\ req[r].pc = "idle"
    /\ \E op \in {"simplify", "explain"} :
       \E text \in (IF op = "simplify" THEN Texts
                    ELSE { RequestTerm(request) : request \in ExplainRequests }) :
         LET rq == [IdleReq EXCEPT !.op = op, !.question = text]
         IN  IF op = "explain" /\ text = <<>>
             THEN /\ req' = [req EXCEPT ![r] =
                         [rq EXCEPT !.pc = "done", !.http = ExplainCaught(text)]]
                  /\ UNCHANGED called_after_failure
             ELSE IF AiEnabled(use_ai, client)
             THEN /\ req' = [req EXCEPT ![r] = [rq EXCEPT !.pc = "call", !.calls = 1]]
                  /\ called_after_failure' = (called_after_failure \/ call_failed)
             ELSE /\ req' = [req EXCEPT ![r] =
                         [rq EXCEPT !.pc = "done", !.text = TextFallback(op, text),
                                    !.http = TextEndpoint(op, text, TextFallback(op, text))]]
                  /\ UNCHANGED called_after_failure
    /\ UNCHANGED <<medical_data, disk, initialized, probe, client, use_ai, api_key, call_failed>>

TextCallReturns(r) ==
    /\ req[r].pc = "call"
    /\ req[r].op \in {"simplify", "explain"}
    /\ \E outcome \in CallOutcomes :
         LET rq == req[r]
         IN  IF outcome.ok
             THEN /\ req' = [req EXCEPT ![r] =
                         [rq EXCEPT !.pc = "done", !.text = outcome.content, !.from_ai = TRUE,
                                    !.http = TextEndpoint(rq.op, rq.question, outcome.content)]]
                  /\ UNCHANGED <<use_ai, call_failed, called_after_failure>>
             ELSE /\ use_ai' = FlagAfterCallFailure(use_ai)
                  /\ call_failed' = TRUE
                  /\ IF RetriesAfterFailure(rq.calls)
                     THEN /\ req' = [req EXCEPT ![r] = [rq EXCEPT !.calls = rq.calls + 1,
                                                                  !.call_failed = TRUE]]
                          /\ called_after_failure' = TRUE
                     ELSE /\ req' = [req EXCEPT ![r] =
                                 [rq EXCEPT !.pc = "done", !.call_failed = TRUE,
                                            !.text = TextFallback(rq.op, rq.question),
                                            !.http = TextEndpoint(rq.op, rq.question,
                                                                  TextFallback(rq.op, rq.question))]]
                          /\ UNCHANGED called_after_failure
    /\ UNCHANGED <<medical_data, disk, initialized, probe, client, api_key>>

\* GET /health
Health(r) ==
    /\ initialized
    /\ req[r].pc = "idle"
    /\ req' = [req EXCEPT ![r] =
                 [IdleReq EXCEPT !.op = "health", !.pc = "done", !.http = HealthCheck(api_key)]]
    /\ UNCHANGED <<medical_data, disk, initialized, probe, client, use_ai, api_key,
                   call_failed, called_after_failure>>

\* the result has been handed to the caller; the slot is free again
Finish(r) ==
    /\ req[r].pc = "done"
    /\ req' = [req EXCEPT ![r] = IdleReq]
    /\ UNCHANGED <<medical_data, disk, initialized, probe, client, use_ai, api_key,
                   call_failed, called_after_failure>>

\* the steps of the service when the requests of slots are served, with
\* questions and personality modes drawn from the given sets
NextOn(slots, questions, modes) ==
    \/ Initialize
    \/ \E r \in slots : StartGetResponse(r, questions, modes)
    \/ \E r \in slots : GetResponseCallReturns(r)
    \/ \E r \in slots : StreamResume(r)
    \/ \E r \in slots : StartText(r)
    \/ \E r \in slots : TextCallReturns(r)
    \/ \E r \in slots : Health(r)
    \/ \E r \in slots : Finish(r)

\* one request at a time, every input
Next == NextOn({"r1"}, Questions, Modes)

Spec == Init /\ [][Next]_vars

\* two requests in flight at once, interleaved at their await points
NextConcurrent == NextOn(Reqs, {AskPcos, AskHi}, {"bestie"})

\* the concurrent requests are served over the built-in corpus or one file
InitConcurrent ==
    /\ Init
    /\ disk \in { <<Absent, Absent, Absent, Absent>>,
                  <<Holding(RankingDataset), Absent, Absent, Absent>> }

SpecConcurrent == InitConcurrent /\ [][NextConcurrent]_vars

(***************************************************************************)
(* Properties.                                                             *)
(***************************************************************************)
\* the requests that went through get_response and have its result
HasResponse(r) ==
    /\ req[r].op \in {"get_response", "stream"}
    /\ req[r].pc \in {"yielded", "done"}

\* C1: get_response never raises to its caller; when the path it took failed
\* internally, what it returns is the error response of the personality
\* mode, with confidence 0.3 and no sources.
C1_GetResponseNeverRaises ==
    \A r \in Reqs :
        HasResponse(r) =>
            /\ ~req[r].response.raised
            /\ req[r].failed =>
                  /\ req[r].response.value = ErrorResponse(req[r].mode)
                  /\ req[r].response.value.confidence = 3
                  /\ req[r].response.value.sources = <<>>

C1_Witness ==
    \E r \in Reqs :
        /\ req[r].op = "get_response" /\ req[r].pc = "done"
        /\ req[r].failed
        /\ req[r].response.value.confidence = 3

\* C2, as stated: once a call to the external capability has failed, no
\* later request issues a call to it.
C2_NoCallAfterFailure == ~called_after_failure

\* C2, amended: the flag is downgraded for good only at startup; when
\* initialize has ended with the flag false, the flag stays false and no
\* request invokes the external capability.
C2_DisabledAtStartupNeverCalls ==
    /\ [](initialized /\ ~use_ai =>
             \A r \in Reqs : req[r].calls = 0 /\ req[r].pc # "call")
    /\ [][initialized /\ ~use_ai => ~use_ai']_vars

C2_Witness ==
    /\ initialized /\ client /\ ~use_ai
    /\ \E r \in Reqs : req[r].pc = "done" /\ req[r].calls = 0

\* C3: once initialize has completed, no step of any request changes the
\* corpus or the generation-availability flag, also when requests interleave
\* and when the external call fails.
C3_RequestsWriteNoSharedState ==
    [][initialized => medical_data' = medical_data /\ use_ai' = use_ai]_vars

C3_Witness ==
    /\ use_ai
    /\ \E r1 \in Reqs, r2 \in Reqs :
          /\ r1 # r2
          /\ req[r1].pc = "done" /\ req[r1].call_failed
          /\ req[r2].pc = "call"

\* C4: when the external call of a request fails, get_response returns for
\* that request what it returns with generation unavailable: the result of
\* the knowledge-based path for the same question, mode, category and corpus.
C4_FailedCallFallsBackToKnowledge ==
    \A r \in Reqs :
        HasResponse(r) /\ req[r].call_failed =>
            LET k == KnowledgeBasedResponse(medical_data, req[r].question,
                                            req[r].mode, req[r].category)
            IN  req[r].response =
                    IF k.raised
                    THEN [raised |-> FALSE,
                          value |-> ErrorResponse(req[r].mode)]
                    ELSE k

C4_Witness ==
    \E r \in Reqs :
        /\ req[r].op = "get_response" /\ req[r].pc = "done"
        /\ req[r].call_failed
        /\ req[r].response.value.sources # <<>>

\* C5: no request invokes the external capability more than once.
C5_AtMostOneCallPerRequest ==
    \A r \in Reqs : req[r].calls <= 1

C5_Witness ==
    \E r \in Reqs :
        req[r].pc = "done" /\ req[r].call_failed /\ req[r].calls = 1

\* the chunk texts concatenated in emission order
RECURSIVE ConcatChunks(_)
ConcatChunks(chunks) ==
    IF chunks = <<>> THEN <<>>
    ELSE Head(chunks).chunk \o ConcatChunks(Tail(chunks))

\* C6: a stream of an answer of N words that has run to its end has
\* ceil(N/4) chunks, whose texts concatenated and trimmed split into the
\* words of the answer in order; every chunk but the last holds 4 words,
\* the last holds 1 to 4.
C6_StreamChunksReconstructAnswer ==
    \A r \in Reqs :
        req[r].op = "stream" /\ req[r].pc = "done" /\ ~req[r].stream_failed =>
            LET words == Split(req[r].response.value.answer)
                chunks == req[r].chunks
            IN  /\ Len(chunks) = (Len(words) + 3) \div 4
                /\ Split(RStrip(ConcatChunks(chunks))) = words
                /\ \A i \in 1..Len(chunks) :
                      LET n == Len(Split(chunks[i].chunk))
                      IN  IF i < Len(chunks) THEN n = 4 ELSE n \in 1..4

C6_Witness ==
    \E r \in Reqs :
        /\ req[r].op = "stream" /\ req[r].pc = "done" /\ ~req[r].stream_failed
        /\ Len(req[r].words) % 4 # 0
        /\ Len(req[r].chunks) >= 2

\* C7: among the chunks a stream has emitted, none but the last has
\* is_complete true or sources attached, and when the stream has run to its
\* end the last has is_complete true; also when the stream failed.
C7_OnlyLastChunkComplete ==
    \A r \in Reqs :
        req[r].op = "stream" =>
            \A i \in 1..Len(req[r].chunks) :
                /\ i < Len(req[r].chunks) =>
                      /\ ~req[r].chunks[i].is_complete
                      /\ req[r].chunks[i].sources = <<>>
                /\ i = Len(req[r].chunks) /\ req[r].pc = "done" =>
                      req[r].chunks[i].is_complete

C7_Witness ==
    \E r \in Reqs :
        /\ req[r].op = "stream" /\ req[r].pc = "done"
        /\ Len(req[r].chunks) >= 2
        /\ req[r].chunks[Len(req[r].chunks)].sources # <<>>

ApologyText ==
    <<"Sorry,", " ", "I", " ", "encountered", " ", "an", " ", "error",
      " ", "processing", " ", "your", " ", "request.">>

\* C8: a stream that failed internally has emitted the apology chunk once,
\* as its last chunk, with is_complete true and no sources, and emits
\* nothing after it.
C8_FailedStreamEndsWithOneApology ==
    \A r \in Reqs :
        req[r].op = "stream" /\ req[r].stream_failed =>
            LET chunks == req[r].chunks
            IN  /\ chunks # <<>>
                /\ chunks[Len(chunks)].chunk = ApologyText
                /\ chunks[Len(chunks)].is_complete
                /\ chunks[Len(chunks)].sources = <<>>
                /\ \A i \in 1..(Len(chunks) - 1) : chunks[i].chunk # ApologyText

C8_Witness ==
    \E r \in Reqs :
        /\ req[r].op = "stream" /\ req[r].pc = "done" /\ req[r].stream_failed
        /\ Len(req[r].chunks) = 1

\* C9: every envelope get_response returns has its confidence and each
\* source score between 0 and 1.
C9_ConfidenceAndScoresInUnitInterval ==
    \A r \in Reqs :
        HasResponse(r) /\ ~req[r].response.raised =>
            LET envelope == req[r].response.value
            IN  /\ envelope.confidence \in 0..10
                /\ \A i \in 1..Len(envelope.sources) :
                      envelope.sources[i].score \in 0..10

C9_Witness ==
    \E r \in Reqs :
        /\ req[r].op = "get_response" /\ req[r].pc = "done"
        /\ req[r].response.value.confidence = 10
        /\ \E i \in 1..Len(medical_data) :
              ItemScore(medical_data[i], req[r].question, req[r].category) > 10

\* no record of the corpus scores above 0 for the request
NoCorpusMatch(r) ==
    \A i \in 1..Len(medical_data) :
        ItemScore(medical_data[i], req[r].question, req[r].category) = 0

\* C10, as stated: for a question with no corpus match get_response returns
\* confidence 0.5 and no sources.
C10_NoMatchGivesHalfConfidence ==
    \A r \in Reqs :
        HasResponse(r) /\ NoCorpusMatch(r) =>
            /\ req[r].response.value.confidence = 5
            /\ req[r].response.value.sources = <<>>

\* C10, amended: for a question with no corpus match get_response returns
\* confidence 0.5 and no sources whenever the answer is not a generated one
\* (generation unavailable, or the external call failed).
C10_NoMatchGivesHalfConfidenceOnKnowledgePath ==
    \A r \in Reqs :
        HasResponse(r) /\ NoCorpusMatch(r) /\ ~req[r].from_ai =>
            /\ req[r].response.value.confidence = 5
            /\ req[r].response.value.sources = <<>>

C10_Witness ==
    \E r \in Reqs :
        /\ req[r].op = "get_response" /\ req[r].pc = "done"
        /\ NoCorpusMatch(r)
        /\ req[r].call_failed
        /\ req[r].mode = "sister"
        /\ req[r].response.value.confidence = 5

\* the knowledge path answered request r from record i of the corpus
Selected(r, i) ==
    /\ "answer" \in DOMAIN medical_data[i] /\ "question" \in DOMAIN medical_data[i]
    /\ req[r].response.value.sources # <<>>
    /\ req[r].response.value.answer =
          CustomizeResponse(medical_data[i]["answer"], req[r].mode, req[r].question)
    /\ req[r].response.value.sources[1].content =
          Slice(medical_data[i]["question"], 100) \o <<".", ".", ".">>

\* the requests answered by the knowledge path without an internal failure
KnowledgeAnswered(r) ==
    HasResponse(r) /\ ~req[r].from_ai /\ ~req[r].failed

\* C11: when the question equals, letter case aside, the question of a
\* record of the corpus, the knowledge path answers from that record.
C11_ExactQuestionIsTopRanked ==
    \A r \in Reqs :
        KnowledgeAnswered(r) =>
            \A i \in 1..Len(medical_data) :
                ( /\ "question" \in DOMAIN medical_data[i]
                  /\ Lower(medical_data[i]["question"]) = Lower(req[r].question) )
                => Selected(r, i)

\* the tags of a record that a question word can equal: lower-cased, longer
\* than two characters, without whitespace
QualifyingTags(item) ==
    { t \in { LowerTags(item)[k] : k \in 1..Len(LowerTags(item)) } :
        Len(t) > 2 /\ \A k \in 1..Len(t) : t[k] \notin Whitespace }

\* the question with n more words equal to tag
WithTagWords(question, tag, n) ==
    IF n = 0 THEN question
    ELSE IF n = 1 THEN question \o <<" ">> \o tag
    ELSE question \o <<" ">> \o tag \o <<" ">> \o tag

\* C12: the score of a record does not decrease when the question gets one
\* more qualifying word that equals one of the record's tags, the category
\* and the other words staying as they are; neither the accumulated score
\* nor the stored (clamped) one.
C12_ScoreMonotoneInTagWords ==
    \A r \in Reqs :
        HasResponse(r) =>
            \A i \in 1..Len(medical_data) :
                \A tag \in QualifyingTags(medical_data[i]) :
                    \A n \in 0..1 :
                        LET fewer == ItemScore(medical_data[i],
                                               WithTagWords(req[r].question, tag, n),
                                               req[r].category)
                            more == ItemScore(medical_data[i],
                                              WithTagWords(req[r].question, tag, n + 1),
                                              req[r].category)
                        IN  /\ more >= fewer
                            /\ Min(more, 10) >= Min(fewer, 10)

\* a request was scored against a record whose score grows with a tag word
C12_Witness ==
    \E r \in Reqs :
        /\ KnowledgeAnswered(r)
        /\ req[r].response.value.sources # <<>>
        /\ \E i \in 1..Len(medical_data) :
             \E tag \in QualifyingTags(medical_data[i]) :
                 /\ ItemScore(medical_data[i], req[r].question, req[r].category) > 0
                 /\ ItemScore(medical_data[i], WithTagWords(req[r].question, tag, 1),
                              req[r].category)
                      > ItemScore(medical_data[i], req[r].question, req[r].category)

\* C13: GET /health reports ai_service "enabled" exactly when use_ai is
\* true, and "disabled" otherwise.
C13_HealthReflectsFlag ==
    \A r \in Reqs :
        (req[r].op = "health" /\ req[r].pc = "done") =>
            /\ req[r].http.status = 200
            /\ req[r].http.message = (IF use_ai THEN <<"enabled">> ELSE <<"disabled">>)

\* C14: POST /explain-term answers 400 when the term is missing or empty,
\* and with the term and its explanation otherwise.
C14_EmptyTermIsRejected ==
    \A r \in Reqs :
        (req[r].op = "explain" /\ req[r].pc = "done") =>
            IF req[r].question = <<>>
            THEN req[r].http.status = 400
            ELSE /\ req[r].http.status = 200
                 /\ req[r].http.term = req[r].question
                 /\ req[r].http.message = req[r].text

\* POST /chat has answered request r
ChatAnswered(r) == req[r].op = "get_response" /\ req[r].pc = "done"

\* C15: POST /chat never answers with an error status; when the result of
\* get_response cannot be wrapped in a ChatResponse, the answer is HTTP 200
\* with the friendly fallback message, confidence 0.5 and no sources, and
\* otherwise HTTP 200 with the answer, sources and confidence of the result.
C15_ChatNeverAnswersError ==
    \A r \in Reqs :
        ChatAnswered(r) =>
            /\ req[r].http.status = 200
            /\ IF req[r].response.raised \/ req[r].response.value.answer = NoneStr
               THEN /\ req[r].http.message[1] = "I'm"
                    /\ req[r].http.message[Len(req[r].http.message)] = "again?"
                    /\ req[r].http.confidence = 5
                    /\ req[r].http.sources = <<>>
               ELSE /\ req[r].http.message = req[r].response.value.answer
                    /\ req[r].http.confidence = req[r].response.value.confidence
                    /\ req[r].http.sources = req[r].response.value.sources

\* the generation call returned a reply without text and /chat answered
C15_Witness ==
    \E r \in Reqs :
        /\ ChatAnswered(r)
        /\ req[r].from_ai
        /\ req[r].response.value.answer = NoneStr
        /\ req[r].http.status = 200
        /\ req[r].http.confidence = 5

\* the first of the candidate files that exists, in the fixed order
FirstCandidate(files) ==
    IF \E k \in 1..Len(files) : files[k].exists
    THEN files[CHOOSE k \in 1..Len(files) :
                   files[k].exists /\ \A j \in 1..(k - 1) : ~files[j].exists]
    ELSE [exists |-> FALSE, parses |-> FALSE, content |-> <<>>]

\* C16: startup always completes with a corpus: the content of the first
\* existing candidate file when it parses, the built-in records when no
\* candidate exists or that file is malformed, whether or not the built-in
\* records could be written to disk.
C16_CorpusLoadAlwaysSucceeds ==
    [][ ~initialized =>
          /\ initialized'
          /\ medical_data' =
               IF FirstCandidate(disk).exists /\ FirstCandidate(disk).parses
               THEN FirstCandidate(disk).content
               ELSE << [question |-> Q_cycle, answer |-> A_cycle, category |-> "menstruation",
                        tags |-> <<T_periods, T_cycle, T_normal>>,
                        source |-> "gynecological_guidelines"],
                       [question |-> Q_preg, answer |-> A_preg, category |-> "pregnancy",
                        tags |-> <<T_pregnancy, T_early_signs>>,
                        source |-> "obstetric_care_guidelines"],
                       [question |-> Q_pcos, answer |-> A_pcos, category |-> "pcos",
                        tags |-> <<T_PCOS, T_hormonal>>,
                        source |-> "endocrinology_textbook"] >> ]_vars

\* the first existing file was malformed, the built-in records could not be
\* written, and the service runs on the built-in records
C16_Witness ==
    /\ initialized
    /\ ~disk[1].exists
    /\ disk[2].exists /\ ~disk[2].parses
    /\ Len(medical_data) = 3
    /\ medical_data[1]["source"] = "gynecological_guidelines"

\* the service explained the term of request r without a generated text
ExplainedByDictionary(r) ==
    /\ req[r].op = "explain" /\ req[r].pc = "done"
    /\ req[r].question # <<>>
    /\ ~req[r].from_ai

\* C17: without a generated text, explain_medical_term returns the dictionary
\* entry of the lower-cased, trimmed term (for "pcos" the PCOS explanation)
\* and, when the dictionary has no such entry, the deferral sentence quoting
\* the term as supplied; the endpoint answers 200 either way.
C17_ExplainFallsBackToDictionary ==
    \A r \in Reqs :
        ExplainedByDictionary(r) =>
            LET key == Strip(Lower(req[r].question))
            IN  /\ req[r].http.status = 200
                /\ req[r].http.message = req[r].text
                /\ key = <<"p","c","o","s">> =>
                      req[r].text = <<"PCOS", " ", "stands", " ", "for", " ", "Polycystic",
                                      " ", "Ovary", " ", "Syndrome.">>
                /\ \A k \in 1..Len(ExplanationKeys) :
                      key = ExplanationKeys[k] => req[r].text = Explanations[k]
                /\ (\A k \in 1..Len(ExplanationKeys) : key # ExplanationKeys[k]) =>
                      req[r].text = <<"'">> \o req[r].question
                                    \o <<"'", " ", "is", " ", "a", " ", "medical", " ", "term.">>

\* the generation call failed and " PCOS" got the PCOS explanation
C17_Witness ==
    \E r \in Reqs :
        /\ ExplainedByDictionary(r)
        /\ req[r].call_failed
        /\ req[r].question = <<" ","P","C","O","S">>
        /\ req[r].text[1] = "PCOS"

\* the service simplified the text of request r by the fixed replacements,
\* and none of the replaced terms occurs in that text
SimplifiedWithoutTerm(r) ==
    /\ req[r].op = "simplify" /\ req[r].pc = "done"
    /\ ~req[r].from_ai
    /\ \A k \in 1..Len(Replacements) : ~IsSubstring(Replacements[k][1], req[r].question)

\* C18 as stated: on such a text simplify is idempotent, simplifying its
\* result gives that result again.
C18_SimplifyIdempotent ==
    \A r \in Reqs :
        SimplifiedWithoutTerm(r) =>
            /\ req[r].text = SimplifyPreamble \o req[r].question
            /\ SimplifyFallback(req[r].text) = req[r].text

\* C18: on a text in which no dictionary term occurs the fallback of simplify
\* returns the preamble followed by the text unchanged; the replacements
\* leave that result as it is, and simplifying it again puts one more
\* preamble in front of it.
C18_SimplifyPrependsPreamble ==
    \A r \in Reqs :
        SimplifiedWithoutTerm(r) =>
            /\ req[r].text = SimplifyPreamble \o req[r].question
            /\ req[r].http.message = req[r].text
            /\ ApplyReplacements(req[r].text, Replacements) = req[r].text
            /\ SimplifyFallback(req[r].text) = SimplifyPreamble \o req[r].text

\* "rest well" was simplified by the fallback
C18_Witness ==
    \E r \in Reqs :
        /\ SimplifiedWithoutTerm(r)
        /\ req[r].question = <<"r","e","s","t"," ","w","e","l","l">>
        /\ req[r].text[1] = "Here's"

\* the score record i of the corpus accumulates for request r
Accumulated(r, i) == ItemScore(medical_data[i], req[r].question, req[r].category)

\* C19: the knowledge path answers from a record whose accumulated score is
\* maximal among the records of the corpus, and from the earliest of the
\* records with that score.
C19_BestMatchHasMaximalScore ==
    \A r \in Reqs :
        (KnowledgeAnswered(r) /\ req[r].response.value.sources # <<>>) =>
            \E i \in 1..Len(medical_data) :
                /\ Selected(r, i)
                /\ Accumulated(r, i) > 0
                /\ \A j \in 1..Len(medical_data) : Accumulated(r, j) <= Accumulated(r, i)
                /\ \A j \in 1..(i - 1) : Accumulated(r, j) < Accumulated(r, i)

\* no word of the question is longer than two characters
NoQualifyingWord(question) ==
    \A k \in 1..Len(Split(Lower(question))) : Len(Split(Lower(question))[k]) <= 2

\* the answer of request r is the generic fallback, not an error
GenericFallback(r) ==
    /\ ~req[r].failed
    /\ req[r].response.value.confidence = 5
    /\ req[r].response.value.sources = <<>>

\* C20 as stated: with an empty corpus, or with a question that has no
\* qualifying word, the knowledge path gives the generic fallback answer,
\* whatever the category hint.
C20_NoWordGivesGenericFallback ==
    \A r \in Reqs :
        (HasResponse(r) /\ ~req[r].from_ai) =>
            ((medical_data = <<>> \/ NoQualifyingWord(req[r].question))
                => GenericFallback(r))

\* C20: with an empty corpus whatever the category hint, or with a question
\* that has no qualifying word and a category hint that is absent or equals
\* the category of no record, the knowledge path gives the generic fallback
\* answer and no error.
C20_NoWordNoCategoryGivesGenericFallback ==
    \A r \in Reqs :
        (HasResponse(r) /\ ~req[r].from_ai) =>
            (( \/ medical_data = <<>>
               \/ /\ NoQualifyingWord(req[r].question)
                  /\ \/ req[r].category \in {"<None>", ""}
                     \/ \A i \in 1..Len(medical_data) :
                           ~( "category" \in DOMAIN medical_data[i]
                              /\ medical_data[i]["category"] = req[r].category ) )
                => GenericFallback(r))

\* "hi" was asked with a category hint of no record over a corpus with records
C20_Witness ==
    \E r \in Reqs :
        /\ HasResponse(r) /\ ~req[r].from_ai
        /\ medical_data # <<>>
        /\ req[r].question = <<"h","i">>
        /\ req[r].category = "fertility"
        /\ req[r].response.value.confidence = 5

\* the record without its tag list
WithoutTags(item) == [k \in DOMAIN item \ {"tags"} |-> item[k]]

\* the qualifying words that occur in a tag of the record: the words of its
\* lower-cased tags that are longer than two characters
TagWords(item) ==
    { w \in UNION { { Split(t)[k] : k \in 1..Len(Split(t)) } :
                    t \in { LowerTags(item)[k] : k \in 1..Len(LowerTags(item)) } } :
        Len(w) > 2 }

\* C21: a qualifying question word that is a substring of a tag of a record
\* adds a positive weight to the score of that record, in the knowledge
\* scorer and in the context scorer: with the word in the question the record
\* scores more than the same record without its tags.
C21_TagSubstringAddsWeight ==
    \A r \in Reqs :
        HasResponse(r) =>
            \A i \in 1..Len(medical_data) :
                \A w \in TagWords(medical_data[i]) :
                    LET asked == req[r].question \o <<" ">> \o w
                    IN  /\ ItemScore(medical_data[i], asked, req[r].category)
                             > ItemScore(WithoutTags(medical_data[i]), asked, req[r].category)
                        /\ ContextItemScore(medical_data[i], asked, req[r].category)
                             > ContextItemScore(WithoutTags(medical_data[i]), asked,
                                                req[r].category)

\* C22: every answer that comes from a successful generation call has
\* exactly one source entry, the synthetic one of the knowledge base, with
\* score 0.9, whether the context put in the prompt was empty or not.
C22_GeneratedAnswerHasOneSource ==
    \A r \in Reqs :
        (HasResponse(r) /\ req[r].from_ai) =>
            /\ ~req[r].response.raised
            /\ req[r].response.value.confidence = 9
            /\ Len(req[r].response.value.sources) = 1
            /\ req[r].response.value.sources[1].score = 9
            /\ req[r].response.value.sources[1].metadata.source = "ai_enhanced"

\* C23: initialize always ends with initialized true, and with use_ai true
\* exactly when the client exists (the library is present), the API key is
\* not blank and the test call was made and succeeded; the test call is made
\* only with a client and a key that is not blank.
C23_InitializeAlwaysCompletes ==
    [][ ~initialized =>
          /\ initialized'
          /\ use_ai' = ( /\ client'
                         /\ api_key \notin {"<None>", "", " "}
                         /\ probe' = "succeeded" )
          /\ probe' # "not_called" => (client' /\ api_key \notin {"<None>", "", " "})
          /\ medical_data' # <<>> \/ FirstCandidate(disk).parses ]_vars

\* a key is configured, the test call failed, and the service runs without
\* generation
C23_Witness ==
    /\ initialized
    /\ client /\ ~use_ai
    /\ probe = "failed"
    /\ api_key = "sk-key"

\* C24: a stream that has been consumed to its end has emitted at least one
\* chunk, and the last chunk it emitted has is_complete true.
C24_StreamEndsWithCompleteChunk ==
    \A r \in Reqs :
        (req[r].op = "stream" /\ req[r].pc = "done") =>
            /\ req[r].chunks # <<>>
            /\ req[r].chunks[Len(req[r].chunks)].is_complete

\* C25: startup changes the candidate files only when none of them exists,
\* and a file that exists when the service starts, parsable or not, is left
\* as it is.
C25_ExistingFileNeverOverwritten ==
    [][ ~initialized =>
          /\ disk' # disk => \A k \in 1..Len(disk) : ~disk[k].exists
          /\ \A k \in 1..Len(disk) : disk[k].exists => disk'[k] = disk[k] ]_vars

====
